---------------------------- MODULE Spec2Model ----------------------------
(***************************************************************************)
(* A model of two pieces of the Ardour core:                               *)
(*   - Temporal::Beats (libs/temporal/temporal/beats.h): musical time as   *)
(*     a pair of signed 32-bit integers (beats, ticks);                    *)
(*   - ARDOUR::Bundle (libs/ardour/bundle.cc): a mutex-protected vector of *)
(*     channels, each a name and an ordered list of port names, mutated    *)
(*     from several threads and emitting signals.                          *)
(* The Beats part is explored by SpecBeats, the Bundle part by SpecBundle. *)
(***************************************************************************)
EXTENDS Integers, Sequences, FiniteSets, TLC

VARIABLES
    cur,      \* the Beats object under test: [beats, ticks]
    last,     \* the last Beats operation: its name, receiver, argument
    nops,     \* operations applied since the object was constructed
    channel,  \* Bundle::_channel of every bundle: a sequence of [name, ports]
    mutex,    \* Bundle::_channel_mutex of every bundle: its holder, or NoThread
    pc,       \* per thread: the Bundle member function it runs and where it is
    _name,    \* Bundle::_name of every bundle
    called,   \* the last call made by a single caller: arguments, state before it
    local     \* per thread: the locals of connect, disconnect, add_channels_from_bundle

beatsVars == <<cur, last, nops>>
callVars == <<_name, called, local>>
bundleVars == <<channel, mutex, pc, _name, called, local>>
vars == <<cur, last, nops, channel, mutex, pc, _name, called, local>>

(***************************************************************************)
(*                                Beats                                    *)
(***************************************************************************)

\* Beats::PPQN = Temporal::ticks_per_beat, which temporal/types.h sets to 1920.
PPQN == 1920

\* enum RoundMode (temporal/types.h).  round_to_subdivision tests dir > 0,
\* dir < 0, dir == RoundUpMaybe and dir == RoundDownAlways.
RoundDownAlways == -2
RoundDownMaybe == -1
RoundNearest == 0
RoundUpMaybe == 1
RoundUpAlways == 2
RoundModes == {RoundDownAlways, RoundDownMaybe, RoundNearest, RoundUpMaybe, RoundUpAlways}

\* Bounds of the exploration.
MaxBeats == 1
MaxSubdiv == 4
MaxFactor == 2
MaxOps == 1

abs(x) == IF x < 0 THEN -x ELSE x

\* C++ integer division truncates toward zero.
cdiv(x, y) == IF x >= 0 THEN x \div y ELSE -((-x) \div y)

BeatsRec(b, t) == [beats |-> b, ticks |-> t]

\* normalize(), lines 47-52: while (_ticks < 0) { --_beats; _ticks += PPQN; }
RECURSIVE borrow(_, _)
borrow(b, t) == IF t < 0 THEN borrow(b - 1, t + PPQN) ELSE BeatsRec(b, t)

\* normalize(), lines 60-63: while (ticks >= PPQN) { ++beats; ticks -= PPQN; }
RECURSIVE carry(_, _)
carry(b, t) == IF t >= PPQN THEN carry(b + 1, t - PPQN) ELSE BeatsRec(b, t)

\* Beats::normalize applied to the fields (b, t).
normalize(b, t) ==
    LET s1 == IF b >= 0 THEN borrow(b, t) ELSE BeatsRec(b, t)
        sign == IF s1.beats < 0 THEN -1 ELSE 1
        s2 == carry(abs(s1.beats), abs(s1.ticks))
    IN  BeatsRec(sign * s2.beats, sign * s2.ticks)

\* explicit Beats(int32_t b, int32_t t)
Beats(b, t) == normalize(b, t)

\* static Beats ticks(int32_t ticks)
ticks(t) == Beats(0, t)

to_ticks(v) == v.beats * PPQN + v.ticks
get_beats(v) == v.beats
get_ticks(v) == v.ticks

\* operator<= (const Beats&)
operator_le(a, b) == a.beats < b.beats \/ (a.beats = b.beats /\ a.ticks <= b.ticks)

round_to_beat(v) ==
    IF v.ticks >= PPQN \div 2 THEN Beats(v.beats + 1, 0) ELSE Beats(v.beats, 0)

round_up_to_beat(v) == IF v.ticks = 0 THEN v ELSE Beats(v.beats + 1, 0)

round_down_to_beat(v) == Beats(v.beats, 0)


\* The dir > 0 branch with the code of lines 167-169 in force, which would
\* keep the rounded value from advancing into the next beat.
subdivision_up_no_carry(t0, cell, dir) ==
    LET md == t0 % cell
        t1 == IF md = 0 /\ dir = RoundUpMaybe THEN t0
              ELSE IF md = 0 THEN t0 + cell
              ELSE t0 + (cell - md)
    IN  IF t1 >= PPQN THEN t1 - PPQN ELSE t1

\* round_to_subdivision, dir > 0 branch (lines 148-169): the new value of the
\* local `ticks`.  Lines 167-169 are commented out in the source.
subdivision_up(t0, cell, dir) ==
    LET md == t0 % cell
    IN  IF md = 0 /\ dir = RoundUpMaybe THEN t0
        ELSE IF md = 0 THEN t0 + cell
        ELSE t0 + (cell - md)

\* round_to_subdivision, dir < 0 branch (lines 171-187).
subdivision_down(t0, cell, dir) ==
    LET md == t0 % cell
        difference == IF md = 0 /\ dir = RoundDownAlways THEN cell ELSE md
    IN  IF t0 < difference THEN PPQN - t0 ELSE t0 - difference

\* Beats::round_to_subdivision for a receiver with to_ticks() >= 0, where the
\* conversion of to_ticks() to uint32_t (line 143) is the identity.  fmod of
\* two integral doubles is the integer remainder and lrint of an integral
\* double is that integer; rem > cell/2.0 is 2*rem > cell.  The local `beats`
\* (lines 146, 204, 219) never reaches the returned value, apart from the test
\* at line 214.
round_to_subdivision(v, subdivision, dir) ==
    LET t0 == to_ticks(v)
        cell == PPQN \div subdivision
        rem == t0 % cell
    IN  IF dir > 0 THEN ticks(subdivision_up(t0, cell, dir))
        ELSE IF dir < 0 THEN ticks(subdivision_down(t0, cell, dir))
        ELSE IF 2 * rem > cell
             THEN LET t1 == t0 + (cell - rem)
                  IN  IF t1 > PPQN THEN ticks(t1 - PPQN) ELSE ticks(t1)
        ELSE IF rem > 0
             THEN IF rem > t0
                  THEN IF v.beats = 0 THEN v ELSE ticks(PPQN - rem)
                  ELSE ticks(t0 - rem)
        ELSE ticks(t0)

\* Arithmetic (lines 300-360).
operator_plus(a, b) == Beats(a.beats + b.beats, a.ticks + b.ticks)
operator_minus(a, b) == Beats(a.beats - b.beats, a.ticks - b.ticks)
operator_plus_int(a, i) == Beats(a.beats + i, a.ticks)
operator_minus_int(a, i) == Beats(a.beats - i, a.ticks)
operator_plus_eq_int(a, i) == BeatsRec(a.beats + i, a.ticks)
operator_minus_eq_int(a, i) == BeatsRec(a.beats - i, a.ticks)
operator_neg(a) == Beats(-a.beats, -a.ticks)
operator_mul(a, factor) == Beats(a.beats * factor, a.ticks * factor)
operator_div(a, factor) == ticks(cdiv(a.beats * PPQN + a.ticks, factor))
operator_plus_eq(a, b) == normalize(a.beats + b.beats, a.ticks + b.ticks)
operator_minus_eq(a, b) == normalize(a.beats - b.beats, a.ticks - b.ticks)

(***************************************************************************)
(* Inputs.  Subdivisions are the divisors of PPQN up to MaxSubdiv.  Tick    *)
(* arguments lie at and next to every cell boundary and every cell midpoint *)
(* of those subdivisions, from a beat and a half below zero to a beat and a *)
(* half above it, so that borrow, carry, ties and beat boundaries all occur.*)
(***************************************************************************)
Subdivisions == {n \in 1..MaxSubdiv : PPQN % n = 0}

TickAnchors ==
    {a \in -(PPQN + PPQN \div 2)..(PPQN + PPQN \div 2) :
        \E n \in Subdivisions : (2 * n * a) % PPQN = 0}

TickInputs == {a + d : a \in TickAnchors, d \in -1..1}

BeatInputs == -MaxBeats..MaxBeats

\* Second operands of the binary operators: constructed values of at most a
\* beat either way, with ticks at and next to zero and the half beat.
OperandTicks == {k * (PPQN \div 2) + d : k \in -1..1, d \in -1..1}
Operands == {Beats(b, t) : b \in -1..1, t \in OperandTicks}

Factors == 1..MaxFactor

Zero == BeatsRec(0, 0)

Op(name, self, other, num, dir) ==
    [op |-> name, self |-> self, other |-> other, num |-> num, dir |-> dir]

\* Beats v;  the default constructor, line 42.
InitBeats ==
    /\ cur = Zero
    /\ last = Op("Beats()", Zero, Zero, 0, 0)
    /\ nops = 0

\* v = Beats(b, t): the object under test is constructed once, from any
\* input pair, and the operations below then act on it.
Construct(b, t) ==
    /\ last.op = "Beats()"
    /\ cur' = Beats(b, t)
    /\ last' = Op("Beats", BeatsRec(b, t), Zero, 0, 0)
    /\ nops' = 0
    /\ UNCHANGED bundleVars

\* An operation on the constructed object, at most MaxOps in a row; a const
\* member function's result becomes the object (v = v.f(...)).
Apply(name, result, other, num, dir) ==
    /\ last.op # "Beats()"
    /\ nops < MaxOps
    /\ cur' = result
    /\ last' = Op(name, cur, other, num, dir)
    /\ nops' = nops + 1
    /\ UNCHANGED bundleVars

Add(b) == Apply("operator+", operator_plus(cur, b), b, 0, 0)
Sub(b) == Apply("operator-", operator_minus(cur, b), b, 0, 0)
AddEq(b) == Apply("operator+=", operator_plus_eq(cur, b), b, 0, 0)
SubEq(b) == Apply("operator-=", operator_minus_eq(cur, b), b, 0, 0)
AddInt(i) == Apply("operator+int", operator_plus_int(cur, i), Zero, i, 0)
SubInt(i) == Apply("operator-int", operator_minus_int(cur, i), Zero, i, 0)
AddEqInt(i) == Apply("operator+=int", operator_plus_eq_int(cur, i), Zero, i, 0)
SubEqInt(i) == Apply("operator-=int", operator_minus_eq_int(cur, i), Zero, i, 0)
Negate == Apply("operator-unary", operator_neg(cur), Zero, 0, 0)
Multiply(f) == Apply("operator*", operator_mul(cur, f), Zero, f, 0)
Divide(f) == Apply("operator/", operator_div(cur, f), Zero, f, 0)
RoundToBeat == Apply("round_to_beat", round_to_beat(cur), Zero, 0, 0)
RoundUpToBeat == Apply("round_up_to_beat", round_up_to_beat(cur), Zero, 0, 0)
RoundDownToBeat == Apply("round_down_to_beat", round_down_to_beat(cur), Zero, 0, 0)

RoundToSubdivision(n, dir) ==
    /\ to_ticks(cur) >= 0
    /\ Apply("round_to_subdivision", round_to_subdivision(cur, n, dir), Zero, n, dir)

NextBeats ==
    \/ \E b \in BeatInputs, t \in TickInputs : Construct(b, t)
    \/ \E b \in Operands : Add(b)
    \/ \E b \in Operands : Sub(b)
    \/ \E b \in Operands : AddEq(b)
    \/ \E b \in Operands : SubEq(b)
    \/ \E i \in BeatInputs : AddInt(i)
    \/ \E i \in BeatInputs : SubInt(i)
    \/ \E i \in BeatInputs : AddEqInt(i)
    \/ \E i \in BeatInputs : SubEqInt(i)
    \/ Negate
    \/ \E f \in Factors : Multiply(f)
    \/ \E f \in Factors : Divide(f)
    \/ RoundToBeat
    \/ RoundUpToBeat
    \/ RoundDownToBeat
    \/ \E n \in Subdivisions, dir \in RoundModes : RoundToSubdivision(n, dir)

(***************************************************************************)
(*                       Properties of Beats                               *)
(***************************************************************************)

\* Normalized form: |ticks| < PPQN and ticks never of the opposite sign to beats.
Normalized(v) ==
    /\ abs(v.ticks) < PPQN
    /\ v.beats > 0 => v.ticks >= 0
    /\ v.beats < 0 => v.ticks <= 0

NonNegative(v) == Normalized(v) /\ v.beats >= 0 /\ v.ticks >= 0

Cell == PPQN \div last.num

\* C1: constructing Beats(b, t), for any b and t of either sign, yields
\* |get_ticks()| < PPQN and get_beats()*PPQN + get_ticks() = b*PPQN + t.
C1_ConstructionKeepsTotalTicks ==
    last.op = "Beats" =>
        /\ abs(get_ticks(cur)) < PPQN
        /\ get_beats(cur) * PPQN + get_ticks(cur) = last.self.beats * PPQN + last.self.ticks

ArithmeticOps ==
    {"operator+", "operator-", "operator+=", "operator-=", "operator+int", "operator-int",
     "operator+=int", "operator-=int", "operator-unary", "operator*", "operator/"}

\* C2: after construction by Beats(b, t) and after every public arithmetic
\* operation applied to such a value, the value is in normalized form.
C2_ArithmeticKeepsNormalForm ==
    (last.op = "Beats" \/ last.op \in ArithmeticOps) => Normalized(cur)

\* C3: for normalized a and b, (a + b).to_ticks() = a.to_ticks() + b.to_ticks()
\* and (a - b).to_ticks() = a.to_ticks() - b.to_ticks(), and (a + b) - b = a.
C3_AddSubAreExactInTicks ==
    (Normalized(last.self) /\ Normalized(last.other)) =>
        /\ last.op \in {"operator+", "operator+="} =>
              /\ to_ticks(cur) = to_ticks(last.self) + to_ticks(last.other)
              /\ operator_minus(cur, last.other) = last.self
        /\ last.op \in {"operator-", "operator-="} =>
              to_ticks(cur) = to_ticks(last.self) - to_ticks(last.other)

\* C4: for normalized a, -a has the negated components of a, and -(-a) = a.
C4_NegationNegatesComponents ==
    (last.op = "operator-unary" /\ Normalized(last.self)) =>
        /\ get_beats(cur) = -get_beats(last.self)
        /\ get_ticks(cur) = -get_ticks(last.self)
        /\ operator_neg(cur) = last.self

\* C5: for normalized v of either sign, round_to_beat() is a whole beat at
\* most PPQN/2 ticks from v, and the later beat when v is exactly halfway.
C5_RoundToBeatIsNearest ==
    (last.op = "round_to_beat" /\ Normalized(last.self)) =>
        /\ get_ticks(cur) = 0
        /\ 2 * abs(to_ticks(cur) - to_ticks(last.self)) <= PPQN
        /\ 2 * abs(last.self.ticks) = PPQN => to_ticks(cur) > to_ticks(last.self)

\* C6: for normalized v of either sign, round_down_to_beat() <= v <=
\* round_up_to_beat(), both are whole beats, and round_up_to_beat() returns v
\* itself exactly when v has zero ticks.
C6_RoundDownUpBracket ==
    Normalized(last.self) =>
        /\ last.op = "round_down_to_beat" =>
              get_ticks(cur) = 0 /\ operator_le(cur, last.self)
        /\ last.op = "round_up_to_beat" =>
              /\ get_ticks(cur) = 0
              /\ operator_le(last.self, cur)
              /\ (cur = last.self) <=> (get_ticks(last.self) = 0)

\* C7: for non-negative v and n dividing PPQN, rounding down to a subdivision
\* (RoundDownMaybe, RoundDownAlways) gives a non-negative multiple of PPQN/n
\* ticks that is not later than v, and zero when v is zero.
C7_RoundDownToSubdivision ==
    (/\ last.op = "round_to_subdivision"
     /\ last.dir \in {RoundDownMaybe, RoundDownAlways}
     /\ NonNegative(last.self)) =>
        /\ to_ticks(cur) >= 0
        /\ to_ticks(cur) % Cell = 0
        /\ to_ticks(cur) <= to_ticks(last.self)
        /\ to_ticks(last.self) = 0 => to_ticks(cur) = 0

\* C8: for non-negative v (also of one beat or more) and n dividing PPQN,
\* round_to_subdivision(n, RoundNearest) is the multiple of PPQN/n ticks
\* nearest to v.to_ticks(), the later one when v is exactly halfway.
C8_RoundNearestSubdivision ==
    (/\ last.op = "round_to_subdivision"
     /\ last.dir = RoundNearest
     /\ NonNegative(last.self)) =>
        /\ to_ticks(cur) % Cell = 0
        /\ 2 * abs(to_ticks(cur) - to_ticks(last.self)) <= Cell
        /\ 2 * (to_ticks(last.self) % Cell) = Cell => to_ticks(cur) > to_ticks(last.self)

RoundedUp ==
    /\ last.op = "round_to_subdivision"
    /\ last.dir \in {RoundUpMaybe, RoundUpAlways}
    /\ NonNegative(last.self)

\* C9, as claimed: for non-negative v and n dividing PPQN, rounding up to a
\* subdivision does not carry into the next beat: the result has v's beats.
C9_RoundUpStaysInBeat == RoundedUp => get_beats(cur) = get_beats(last.self)

\* C9, amended: rounding up to a subdivision returns the first cell boundary at
\* or after v (strictly after v with RoundUpAlways), normalized: the result has
\* v's beats when that boundary lies inside v's beat, and carries to
\* v's beats + 1 with zero ticks when the boundary is the start of the next beat.
C9_RoundUpCarriesIntoNextBeat ==
    RoundedUp =>
        /\ to_ticks(cur) % Cell = 0
        /\ to_ticks(cur) >= to_ticks(last.self)
        /\ to_ticks(cur) - to_ticks(last.self) <= Cell
        /\ last.dir = RoundUpAlways => to_ticks(cur) > to_ticks(last.self)
        /\ last.dir = RoundUpMaybe => to_ticks(cur) - to_ticks(last.self) < Cell
        /\ IF to_ticks(cur) >= (get_beats(last.self) + 1) * PPQN
           THEN get_beats(cur) = get_beats(last.self) + 1 /\ get_ticks(cur) = 0
           ELSE get_beats(cur) = get_beats(last.self)

\* C9 witness: a value inside a beat was rounded up onto the next beat.
C9_Witness ==
    /\ RoundedUp
    /\ get_ticks(last.self) # 0
    /\ get_beats(cur) = get_beats(last.self) + 1
    /\ get_ticks(cur) = 0

(***************************************************************************)
(*                                Bundle                                   *)
(*                                                                         *)
(* Every member function runs in a calling thread.  A Glib::Mutex::Lock is *)
(* two steps: the constructor acquires _channel_mutex (and waits while     *)
(* another holder has it), the end of its scope releases it.  A thread     *)
(* that is not inside a member function is "idle".                         *)
(***************************************************************************)
Threads == {"t1", "t2"}
Bundles == {"A", "B"}
NoThread == "none"

\* Bounds of the exploration: channels per bundle, ports per bundle.
MaxChannels == 1
MaxPorts == 2

\* Strings are sequences of characters.
QualifiedPorts == {<<"a", ":", "1">>, <<"b", ":", "2">>}
PortArgs == QualifiedPorts \cup {<<"x">>}
ChannelNames == {<<"L">>, <<"R">>}

\* The test written against 0, the first position, instead of string::npos.
has_separator_not_first(portname) == portname = <<>> \/ portname[1] # ":"

\* portname.find_first_of (':') != string::npos
has_separator(portname) == \E i \in 1..Len(portname) : portname[i] = ":"

\* Channel (n): a name and no ports.
Channel(n) == [name |-> n, ports |-> <<>>]

\* std::find (pl.begin(), pl.end(), portname): the first position holding
\* portname, or Len(pl) + 1 for pl.end().
find(pl, portname) ==
    IF \E i \in 1..Len(pl) : pl[i] = portname
    THEN CHOOSE i \in 1..Len(pl) : pl[i] = portname /\ \A j \in 1..(i - 1) : pl[j] # portname
    ELSE Len(pl) + 1

\* pl.erase (i), and _channel.erase (_channel.begin () + ch) with i = ch + 1.
erase(seq, i) == [j \in 1..(Len(seq) - 1) |-> IF j < i THEN seq[j] ELSE seq[j + 1]]

Idle == [op |-> "idle", at |-> "idle", b |-> "A", ch |-> 0, arg |-> <<>>]
Aborted == [Idle EXCEPT !.at = "aborted"]
Crashed == [Idle EXCEPT !.at = "crashed"]
Frame(op, at, b, ch, arg) == [op |-> op, at |-> at, b |-> b, ch |-> ch, arg |-> arg]

\* A failed assert aborts the process; an access outside the vector is
\* undefined, and one of its outcomes is a crash: nothing runs after either.
Running == \A t \in Threads : pc[t].at \notin {"aborted", "crashed"}

\* Ports held by bundle b, and calls in flight that may add one.
RECURSIVE SumPorts(_)
SumPorts(chs) == IF chs = <<>> THEN 0 ELSE Len(Head(chs).ports) + SumPorts(Tail(chs))
AddingPort(b) ==
    {t \in Threads : pc[t].b = b /\ pc[t].op \in {"add_port_to_channel", "set_port"}}
AddingChannel(b) == {t \in Threads : pc[t].b = b /\ pc[t].op = "add_channel"}

\* No call made yet, and a thread outside connect, disconnect and
\* add_channels_from_bundle, whose locals do not exist.
NoCall ==
    [op |-> "none", b |-> "A", other |-> "A", ch |-> 0, arg |-> <<>>,
     pre |-> [b \in Bundles |-> <<>>], undo |-> <<>>, calls |-> <<>>]
NoLocals ==
    [other |-> "A", n |-> 0, j |-> 0, k |-> 0, ours |-> <<>>, theirs |-> <<>>,
     calls |-> {}, done |-> FALSE, bound |-> 0]

\* Every bundle is created empty, under its own name.
InitBundle ==
    /\ channel = [b \in Bundles |-> <<>>]
    /\ mutex = [b \in Bundles |-> NoThread]
    /\ pc = [t \in Threads |-> Idle]
    /\ _name = [b \in Bundles |-> <<b>>]
    /\ called = NoCall
    /\ local = [t \in Threads |-> NoLocals]

\* Glib::Mutex::Lock lm (_channel_mutex): the constructor.
acquire(b, t) == [mutex EXCEPT ![b] = t]

\* A lock whose scope would last to the end of the function, past the signal.
scoped_unlock_after_emit(b, t) == mutex

\* The scope of a Glib::Mutex::Lock ends, and the mutex is released, before
\* the signal is emitted (the closing brace at lines 71, 96, 127, 139, 220).
scoped_unlock(b, t) == [mutex EXCEPT ![b] = NoThread]

IndexedOps ==
    {"add_port_to_channel", "remove_port_from_channel", "set_port", "set_channel_name",
     "remove_channel"}

ArgsOf(op) ==
    IF op \in {"add_port_to_channel", "remove_port_from_channel", "set_port"} THEN PortArgs
    ELSE IF op = "set_channel_name" THEN ChannelNames
    ELSE {<<>>}

\* uint32_t Bundle::nchannels () const: lock, _channel.size (), unlock.  No
\* other thread can act on the bundle between its lock and its unlock, so it
\* is one step, possible when the mutex is free.
nchannels(b) == Len(channel[b])

\* A thread calls a member function that starts with assert (ch < nchannels ())
\* and, for add_port_to_channel and set_port, with
\* assert (portname.find_first_of (':') != string::npos).  A failed assert
\* aborts; otherwise the thread goes on to take the lock of the function body.
CallIndexed(t, op, b, ch, arg) ==
    /\ Running
    /\ pc[t].at = "idle"
    /\ op \in {"add_port_to_channel", "set_port"} =>
           SumPorts(channel[b]) + Cardinality(AddingPort(b)) < MaxPorts
    /\ mutex[b] = NoThread
    /\ pc' = [pc EXCEPT ![t] =
                 IF /\ ch < nchannels(b)
                    /\ op \in {"add_port_to_channel", "set_port"} => has_separator(arg)
                 THEN Frame(op, "lock", b, ch, arg) ELSE Aborted]
    /\ UNCHANGED <<channel, mutex, beatsVars, callVars>>

\* Glib::Mutex::Lock lm (_channel_mutex) of the function body.
Lock(t) ==
    LET f == pc[t] IN
    /\ Running
    /\ f.at = "lock"
    /\ mutex[f.b] = NoThread
    /\ mutex' = acquire(f.b, t)
    /\ pc' = [pc EXCEPT ![t].at = "locked"]
    /\ UNCHANGED <<channel, beatsVars, callVars>>

\* add_channel and remove_channels assert nothing and start with the lock.
CallUnindexed(t, op, b, arg) ==
    /\ Running
    /\ pc[t].at = "idle"
    /\ op = "add_channel" =>
           Len(channel[b]) + Cardinality(AddingChannel(b)) < MaxChannels
    /\ mutex[b] = NoThread
    /\ mutex' = acquire(b, t)
    /\ pc' = [pc EXCEPT ![t] = Frame(op, "locked", b, 0, arg)]
    /\ UNCHANGED <<channel, beatsVars, callVars>>

\* The locked part of a function that indexes _channel[ch], followed by the
\* end of the lock's scope.  ch was checked before the lock was taken; when it
\* is no longer inside the vector the access is undefined: the process
\* crashes, or the function goes on with one of the vectors in `outside` and
\* to one of the places in `after`.
Locked(t, op, edited, next, outside, after) ==
    LET f == pc[t]
        Goto(at) == IF at = "idle" THEN Idle ELSE [f EXCEPT !.at = at]
    IN
    /\ Running
    /\ f.op = op
    /\ f.at = "locked"
    /\ UNCHANGED <<beatsVars, callVars>>
    /\ \/ /\ f.ch < Len(channel[f.b])
          /\ channel' = [channel EXCEPT ![f.b] = edited]
          /\ mutex' = scoped_unlock(f.b, t)
          /\ pc' = [pc EXCEPT ![t] = Goto(next)]
       \/ /\ f.ch >= Len(channel[f.b])
          /\ \/ /\ \E chs \in outside : channel' = [channel EXCEPT ![f.b] = chs]
                /\ mutex' = scoped_unlock(f.b, t)
                /\ \E at \in after : pc' = [pc EXCEPT ![t] = Goto(at)]
             \/ /\ UNCHANGED <<channel, mutex>>
                /\ pc' = [pc EXCEPT ![t] = Crashed]

\* _channel[ch].ports.push_back (portname);
add_port_to_channel(chs, ch, portname) ==
    [chs EXCEPT ![ch + 1].ports = Append(@, portname)]

AddPortToChannel(t) ==
    Locked(t, "add_port_to_channel",
           add_port_to_channel(channel[pc[t].b], pc[t].ch, pc[t].arg), "emit",
           {channel[pc[t].b]}, {"emit"})

\* The port list with every match erased, not only the first.
remove_port_from_channel_all(chs, ch, portname) ==
    LET pl == chs[ch + 1].ports
        keep == {i \in 1..Len(pl) : pl[i] # portname}
        nth(n) == CHOOSE i \in keep : Cardinality({j \in keep : j < i}) = n - 1
    IN  [chs EXCEPT ![ch + 1].ports = [n \in 1..Cardinality(keep) |-> pl[nth(n)]]]

\* find, and erase when found.
remove_port_from_channel(chs, ch, portname) ==
    LET pl == chs[ch + 1].ports
        i == find(pl, portname)
    IN  IF i # Len(pl) + 1 THEN [chs EXCEPT ![ch + 1].ports = erase(pl, i)] ELSE chs

\* `changed`: PortsChanged is emitted only when a port was erased.
RemovePortFromChannel(t) ==
    LET f == pc[t]
        chs == channel[f.b]
        changed == f.ch < Len(chs) /\ find(chs[f.ch + 1].ports, f.arg) # Len(chs[f.ch + 1].ports) + 1
    IN  Locked(t, "remove_port_from_channel",
               remove_port_from_channel(chs, f.ch, f.arg),
               IF changed THEN "emit" ELSE "idle",
               {chs}, {"emit", "idle"})

\* The port list cleared and the new port not stored.
set_port_clear_only(chs, ch, portname) == [chs EXCEPT ![ch + 1].ports = <<>>]

\* _channel[ch].ports.clear (); _channel[ch].ports.push_back (portname);
set_port(chs, ch, portname) == [chs EXCEPT ![ch + 1].ports = <<portname>>]

SetPort(t) ==
    Locked(t, "set_port", set_port(channel[pc[t].b], pc[t].ch, pc[t].arg), "emit",
           {channel[pc[t].b]}, {"emit"})

\* _channel[ch].name = n;
set_channel_name(chs, ch, n) == [chs EXCEPT ![ch + 1].name = n]

SetChannelName(t) ==
    Locked(t, "set_channel_name",
           set_channel_name(channel[pc[t].b], pc[t].ch, pc[t].arg), "emit",
           {channel[pc[t].b]}, {"emit"})

\* _channel.erase (_channel.begin () + ch); nothing is emitted.
remove_channel(chs, ch) == erase(chs, ch + 1)

\* Erasing at or past end () moves nothing and may still shorten the vector.
RemoveChannel(t) ==
    LET chs == channel[pc[t].b] IN
    Locked(t, "remove_channel", remove_channel(chs, pc[t].ch), "idle",
           {chs} \cup (IF chs = <<>> THEN {} ELSE {SubSeq(chs, 1, Len(chs) - 1)}), {"idle"})

\* _channel.push_back (Channel (n));
add_channel(chs, n) == Append(chs, Channel(n))

AddChannel(t) ==
    LET f == pc[t] IN
    /\ Running
    /\ f.op = "add_channel"
    /\ f.at = "locked"
    /\ channel' = [channel EXCEPT ![f.b] = add_channel(@, f.arg)]
    /\ mutex' = scoped_unlock(f.b, t)
    /\ pc' = [pc EXCEPT ![t].at = "emit"]
    /\ UNCHANGED <<beatsVars, callVars>>

\* _channel.clear (); nothing is emitted.
RemoveChannels(t) ==
    LET f == pc[t] IN
    /\ Running
    /\ f.op = "remove_channels"
    /\ f.at = "locked"
    /\ channel' = [channel EXCEPT ![f.b] = <<>>]
    /\ mutex' = scoped_unlock(f.b, t)
    /\ pc' = [pc EXCEPT ![t] = Idle]
    /\ UNCHANGED <<beatsVars, callVars>>

\* The signal a member function emits.
signal_of(op) ==
    IF op \in {"add_port_to_channel", "remove_port_from_channel", "set_port"} THEN "PortsChanged"
    ELSE IF op = "add_channel" THEN "ConfigurationChanged"
    ELSE IF op = "set_channel_name" THEN "NameChanged"
    ELSE "none"

\* PortsChanged (ch), ConfigurationChanged () or NameChanged (): the slots run
\* in the emitting thread while it is at "emit"; the function then returns.
Emit(t) ==
    /\ Running
    /\ pc[t].at = "emit"
    /\ pc' = [pc EXCEPT ![t] = Idle]
    /\ UNCHANGED <<channel, mutex, beatsVars, callVars>>

\* Two threads share one bundle and call its member functions at will.
SharedBundles == {"A"}

NextBundle ==
    \/ \E t \in Threads, op \in IndexedOps, b \in SharedBundles, ch \in 0..MaxChannels :
          \E arg \in ArgsOf(op) : CallIndexed(t, op, b, ch, arg)
    \/ \E t \in Threads : Lock(t)
    \/ \E t \in Threads, b \in SharedBundles, n \in ChannelNames :
          CallUnindexed(t, "add_channel", b, n)
    \/ \E t \in Threads, b \in SharedBundles : CallUnindexed(t, "remove_channels", b, <<>>)
    \/ \E t \in Threads : AddPortToChannel(t)
    \/ \E t \in Threads : RemovePortFromChannel(t)
    \/ \E t \in Threads : SetPort(t)
    \/ \E t \in Threads : SetChannelName(t)
    \/ \E t \in Threads : RemoveChannel(t)
    \/ \E t \in Threads : AddChannel(t)
    \/ \E t \in Threads : RemoveChannels(t)
    \/ \E t \in Threads : Emit(t)

(***************************************************************************)
(*                          Specifications                                 *)
(***************************************************************************)
Init == InitBeats /\ InitBundle

SpecBeats == Init /\ [][NextBeats]_vars

SpecBundle == Init /\ [][NextBundle]_vars

(***************************************************************************)
(*                       Properties of Bundle                              *)
(***************************************************************************)

Emitting(t) == pc[t].at = "emit" /\ signal_of(pc[t].op) # "none"

\* C10: whenever a thread is invoking PortsChanged, ConfigurationChanged or
\* NameChanged of a bundle (from add_port_to_channel, remove_port_from_channel,
\* set_port, add_channel or set_channel_name), it does not hold that bundle's
\* channel mutex.
C10_NoLockHeldWhileEmitting ==
    \A t \in Threads : Emitting(t) => mutex[pc[t].b] # t

\* C10 witness: a thread is emitting PortsChanged for a port it has just
\* stored while another thread holds the same bundle's mutex.
C10_Witness ==
    \E t \in Threads, u \in Threads :
        /\ t # u
        /\ Emitting(t)
        /\ pc[t].op = "set_port"
        /\ pc[t].ch < Len(channel[pc[t].b])
        /\ channel[pc[t].b][pc[t].ch + 1].ports = <<pc[t].arg>>
        /\ mutex[pc[t].b] = u

ChannelOps == {"add_channel", "remove_channel", "remove_channels"}

\* C11: every operation that adds or removes a channel (add_channel,
\* remove_channel, remove_channels) emits ConfigurationChanged once it has
\* completed its edit of _channel: the step that ends the locked edit takes
\* the calling thread to the emission of that signal.
C11_ChannelEditEmitsConfigurationChanged ==
    [][\A t \in Threads :
          (/\ pc[t].at = "locked"
           /\ pc[t].op \in ChannelOps
           /\ pc'[t].at \notin {"locked", "crashed"}) =>
              /\ pc'[t].at = "emit"
              /\ signal_of(pc'[t].op) = "ConfigurationChanged"]_vars

\* C13: an index-taking operation that passed assert (ch < nchannels ()) never
\* indexes or erases _channel[ch] with ch at or past the size the vector has
\* at the moment of the access.
C13_IndexInsideVectorWhenAccessed ==
    \A t \in Threads :
        (pc[t].at = "locked" /\ pc[t].op \in IndexedOps) =>
            pc[t].ch < Len(channel[pc[t].b])

(***************************************************************************)
(*                     Bundle, with a single caller                        *)
(*                                                                         *)
(* One thread builds bundle A, one call after another, and copies, merges  *)
(* and connects it with bundle B, which was built before.  Nothing runs    *)
(* between the steps of a call, so a call is one step: its asserts, its    *)
(* locked edit and its signal, whose slots do nothing here.  `called`      *)
(* records the last call when it is an add_port_to_channel, the            *)
(* remove_port_from_channel that undoes one, an add_channels_from_bundle   *)
(* (with the channels of every bundle before it) or a connect or           *)
(* disconnect (with what the engine was asked to do).                      *)
(***************************************************************************)
Caller == "t1"

\* Bounds: channels and ports of the bundle that is built, and characters of
\* a channel name.
SeqMaxChannels == 2
SeqMaxPorts == 3
MaxNameLen == 3

\* The bundle that is built and the names given to its channels, and the
\* bundles B may be: each the result of add_channel and add_port_to_channel
\* calls.
Built == {"A"}
BuiltNames == {<<"L">>}
OtherBundles ==
    LET a == <<"a", ":", "1">>
        b == <<"b", ":", "2">>
        L == <<"L">>
        R == <<"R">>
    IN  {<<>>,
         <<[name |-> L, ports |-> <<a>>]>>,
         <<[name |-> R, ports |-> <<b, a>>]>>,
         <<[name |-> L, ports |-> <<a, b>>], [name |-> R, ports |-> <<b>>]>>}

InitSeq ==
    /\ InitBeats
    /\ channel \in {[b \in Bundles |-> IF b \in Built THEN <<>> ELSE o] : o \in OtherBundles}
    /\ mutex = [b \in Bundles |-> NoThread]
    /\ pc = [t \in Threads |-> Idle]
    /\ _name = [b \in Bundles |-> <<b>>]
    /\ called = NoCall
    /\ local = [t \in Threads |-> NoLocals]

Call(op, b, other, ch, arg) ==
    [NoCall EXCEPT !.op = op, !.b = b, !.other = other, !.ch = ch, !.arg = arg]

Calling == Running /\ pc[Caller].at = "idle"

\* The call returns, leaving chs in bundle b.
Return(b, call, chs) ==
    /\ channel' = [channel EXCEPT ![b] = chs]
    /\ called' = call
    /\ UNCHANGED <<mutex, pc, _name, local, beatsVars>>

\* An assert of the call fails.
Abort(call) ==
    /\ pc' = [pc EXCEPT ![Caller] = Aborted]
    /\ called' = call
    /\ UNCHANGED <<channel, mutex, _name, local, beatsVars>>

\* Bundle::Bundle (boost::shared_ptr<Bundle> other): b is a new bundle, built
\* from other's channels and name.
SeqCopy(b, other) ==
    /\ Calling
    /\ b # other
    /\ Len(channel[other]) <= SeqMaxChannels
    /\ SumPorts(channel[other]) <= SeqMaxPorts
    /\ channel' = [channel EXCEPT ![b] = channel[other]]
    /\ _name' = [_name EXCEPT ![b] = _name[other]]
    /\ called' = NoCall
    /\ UNCHANGED <<mutex, pc, local, beatsVars>>

SeqAddChannel(b, n) ==
    /\ Calling
    /\ Len(channel[b]) < SeqMaxChannels
    /\ Return(b, NoCall, add_channel(channel[b], n))

SeqRemoveChannel(b, ch) ==
    /\ Calling
    /\ IF ch < nchannels(b)
       THEN Return(b, NoCall, remove_channel(channel[b], ch))
       ELSE Abort(NoCall)

SeqRemoveChannels(b) ==
    /\ Calling
    /\ Return(b, NoCall, <<>>)

SeqAddPortToChannel(b, ch, portname) ==
    /\ Calling
    /\ SumPorts(channel[b]) < SeqMaxPorts
    /\ IF ch < nchannels(b) /\ has_separator(portname)
       THEN Return(b, [Call("add_port_to_channel", b, b, ch, portname) EXCEPT !.pre = channel],
                   add_port_to_channel(channel[b], ch, portname))
       ELSE Abort(NoCall)

\* When the call follows an add_port_to_channel of the same bundle, channel
\* and port name, `undo` holds the port list as it was before that call.
SeqRemovePortFromChannel(b, ch, portname) ==
    LET follows == /\ called.op = "add_port_to_channel"
                   /\ called.b = b /\ called.ch = ch /\ called.arg = portname
        call == IF follows
                THEN [Call("remove_port_from_channel", b, b, ch, portname) EXCEPT
                         !.undo = <<called.pre[b][ch + 1].ports>>]
                ELSE NoCall
    IN
    /\ Calling
    /\ IF ch < nchannels(b)
       THEN Return(b, call, remove_port_from_channel(channel[b], ch, portname))
       ELSE Abort(NoCall)

SeqSetPort(b, ch, portname) ==
    /\ Calling
    /\ SumPorts(channel[b]) < SeqMaxPorts
    /\ IF ch < nchannels(b) /\ has_separator(portname)
       THEN Return(b, NoCall, set_port(channel[b], ch, portname))
       ELSE Abort(NoCall)

\* add_channels_from_bundle, the loop of lines 242-244 from j on, with the
\* asserts of add_port_to_channel: r.ok is false once one has failed.
RECURSIVE add_ports_loop(_, _, _, _)
add_ports_loop(r, c, pl, j) ==
    IF ~r.ok \/ ~(j < Len(pl)) THEN r
    ELSE IF c < Len(r.chs) /\ has_separator(pl[j + 1])
         THEN add_ports_loop([r EXCEPT !.chs = add_port_to_channel(@, c, pl[j + 1])],
                             c, pl, j + 1)
         ELSE [r EXCEPT !.ok = FALSE]

\* The loop with the ports of other's channel i added to channel i of this.
RECURSIVE add_channels_from_bundle_at_i(_, _, _, _, _)
add_channels_from_bundle_at_i(r, ch, oname, ochs, i) ==
    IF ~r.ok \/ ~(i < Len(ochs)) THEN r
    ELSE add_channels_from_bundle_at_i(
             add_ports_loop(
                 [r EXCEPT !.chs = add_channel(@, oname \o <<" ">> \o ochs[i + 1].name)],
                 i, ochs[i + 1].ports, 0),
             ch, oname, ochs, i + 1)

\* Bundle::add_channels_from_bundle, the loop of lines 234-245 from i on, for
\* other distinct from this: ch is nchannels () at the call, oname is
\* other->name (), ochs are other's channels, which the loop leaves alone.
RECURSIVE add_channels_from_bundle(_, _, _, _, _)
add_channels_from_bundle(r, ch, oname, ochs, i) ==
    IF ~r.ok \/ ~(i < Len(ochs)) THEN r
    ELSE add_channels_from_bundle(
             add_ports_loop(
                 [r EXCEPT !.chs = add_channel(@, oname \o <<" ">> \o ochs[i + 1].name)],
                 ch + i, ochs[i + 1].ports, 0),
             ch, oname, ochs, i + 1)

\* this->add_channels_from_bundle (other) with other # this.  With
\* other = this the call does not return, and a single caller makes no
\* further call.
SeqAddChannelsFromBundle(b, other) ==
    LET r == add_channels_from_bundle([ok |-> TRUE, chs |-> channel[b]], nchannels(b),
                                      _name[other], channel[other], 0)
        call == [Call("add_channels_from_bundle", b, other, 0, <<>>) EXCEPT !.pre = channel]
    IN
    /\ Calling
    /\ b # other
    /\ Len(channel[b]) + Len(channel[other]) <= SeqMaxChannels
    /\ SumPorts(channel[b]) + SumPorts(channel[other]) <= SeqMaxPorts
    /\ \A i \in 1..Len(channel[other]) :
           Len(_name[other]) + 1 + Len(channel[other][i].name) <= MaxNameLen
    /\ IF r.ok THEN Return(b, call, r.chs) ELSE Abort(call)

\* connect, the loop of lines 259-261 from k on: the engine calls made for
\* the port p of this bundle.
RECURSIVE other_ports_loop(_, _, _, _)
other_ports_loop(f, p, other_ports, k) ==
    IF k > Len(other_ports) THEN <<>>
    ELSE <<<<f, p, other_ports[k]>>>> \o other_ports_loop(f, p, other_ports, k + 1)

\* The loops with one engine call for each position of the two lists.
RECURSIVE our_ports_loop_paired(_, _, _, _)
our_ports_loop_paired(f, our_ports, other_ports, j) ==
    IF j > Len(our_ports) \/ j > Len(other_ports) THEN <<>>
    ELSE <<<<f, our_ports[j], other_ports[j]>>>>
             \o our_ports_loop_paired(f, our_ports, other_ports, j + 1)

\* The loop of lines 258-262 from j on.
RECURSIVE our_ports_loop(_, _, _, _)
our_ports_loop(f, our_ports, other_ports, j) ==
    IF j > Len(our_ports) THEN <<>>
    ELSE other_ports_loop(f, our_ports[j], other_ports, 1)
             \o our_ports_loop(f, our_ports, other_ports, j + 1)

\* Bundle::connect and Bundle::disconnect, the loop of lines 254-263 (272-281)
\* from i on; f is the engine function called.
RECURSIVE channels_loop(_, _, _, _, _)
channels_loop(f, ours, others, N, i) ==
    IF ~(i < N) THEN <<>>
    ELSE our_ports_loop(f, ours[i + 1].ports, others[i + 1].ports, 1)
             \o channels_loop(f, ours, others, N, i + 1)

\* this->connect (other, engine), this->disconnect (other, engine):
\* assert (N == other->nchannels ()), then the loops.
SeqConnect(f, b, other) ==
    LET N == nchannels(b)
        call == Call(f, b, other, 0, <<>>)
    IN
    /\ Calling
    /\ IF N = nchannels(other)
       THEN Return(b, [call EXCEPT !.calls = channels_loop(f, channel[b], channel[other], N, 0)],
                   channel[b])
       ELSE Abort(call)

NextSeq ==
    \/ \E b \in Built, other \in Bundles : SeqCopy(b, other)
    \/ \E b \in Built, n \in BuiltNames : SeqAddChannel(b, n)
    \/ \E b \in Built, ch \in 0..SeqMaxChannels : SeqRemoveChannel(b, ch)
    \/ \E b \in Built : SeqRemoveChannels(b)
    \/ \E b \in Built, ch \in 0..SeqMaxChannels, p \in PortArgs :
          SeqAddPortToChannel(b, ch, p)
    \/ \E b \in Built, ch \in 0..SeqMaxChannels, p \in PortArgs :
          SeqRemovePortFromChannel(b, ch, p)
    \/ \E b \in Built, ch \in 0..SeqMaxChannels, p \in PortArgs : SeqSetPort(b, ch, p)
    \/ \E b \in Built, other \in Bundles : SeqAddChannelsFromBundle(b, other)
    \/ \E b \in Built, other \in Bundles : SeqConnect("connect", b, other)
    \/ \E b \in Built, other \in Bundles : SeqConnect("disconnect", b, other)

SpecSeq == InitSeq /\ [][NextSeq]_vars

(***************************************************************************)
(*                Properties of Bundle with a single caller                *)
(***************************************************************************)

\* add_port_to_channel (ch, p) has been followed by
\* remove_port_from_channel (ch, p) on the same bundle.
Undone == called.op = "remove_port_from_channel" /\ called.undo # <<>>
PortsBefore == called.undo[1]
PortsAfter == channel[called.b][called.ch + 1].ports

\* C12, as claimed: for every valid channel ch, every port list of it (also one
\* that already holds p) and every qualified p, add_port_to_channel (ch, p)
\* followed by remove_port_from_channel (ch, p) leaves the channel's ordered
\* port list identical to what it was before the two calls.
C12_AddThenRemoveRestoresPortList == Undone => PortsAfter = PortsBefore

\* C12, amended: the two calls leave the list identical when it did not hold p,
\* or held p only in a run at its end; when p stood before another port, the
\* first p is erased and p is last: the ports after the first p move up by one.
C12_AddThenRemoveErasesFirstMatch ==
    Undone =>
        LET L == PortsBefore
            p == called.arg
            held == {i \in 1..Len(L) : L[i] = p}
        IN  /\ Len(PortsAfter) = Len(L)
            /\ held = {} => PortsAfter = L
            /\ (\A i \in held : \A j \in i..Len(L) : L[j] = p) => PortsAfter = L
            /\ \A i \in held :
                  (\A h \in held : i <= h) =>
                      /\ \A j \in 1..(i - 1) : PortsAfter[j] = L[j]
                      /\ \A j \in i..(Len(L) - 1) : PortsAfter[j] = L[j + 1]
                      /\ PortsAfter[Len(L)] = p

\* C12 witness: the list held p before another port, and the two calls have
\* changed its order.
C12_Witness ==
    /\ Undone
    /\ \E i \in 1..Len(PortsBefore) : PortsBefore[i] = called.arg
    /\ PortsAfter # PortsBefore

\* connect or disconnect was the last call.
Connected == called.op \in {"connect", "disconnect"}

\* The positions (channel, our port, other's port) of two bundles' channels.
Positions(ours, others) ==
    {x \in (1..Len(ours)) \X (1..SumPorts(ours)) \X (1..SumPorts(others)) :
        /\ x[1] <= Len(others)
        /\ x[2] <= Len(ours[x[1]].ports)
        /\ x[3] <= Len(others[x[1]].ports)}

\* C16: with a single caller, connect (other, engine) on bundles of equal
\* channel counts calls engine.connect (p, q) once for every channel i and
\* every pair of a port p of this channel i and a port q of other's channel i,
\* and makes no other call: the calls number the sum over i of
\* |our ports i| * |other ports i|.  disconnect does the same with
\* engine.disconnect.  When the channel counts differ no engine call is made.
C16_ConnectCallsCrossProduct ==
    Connected =>
        LET ours == channel[called.b]
            others == channel[called.other]
            calls == called.calls
        IN  IF Len(ours) # Len(others)
            THEN calls = <<>> /\ pc[Caller].at = "aborted"
            ELSE /\ pc[Caller].at = "idle"
                 /\ Len(calls) = Cardinality(Positions(ours, others))
                 /\ \A n \in 1..Len(calls) : calls[n][1] = called.op
                 /\ \A p \in QualifiedPorts, q \in QualifiedPorts :
                       Cardinality({n \in 1..Len(calls) : calls[n] = <<called.op, p, q>>})
                       = Cardinality({x \in Positions(ours, others) :
                                         /\ ours[x[1]].ports[x[2]] = p
                                         /\ others[x[1]].ports[x[3]] = q})

\* C16 witness: disconnect on two bundles of two channels, with port lists of
\* sizes {2, 1} and {2, 1}, has made 2*2 + 1*1 = 5 engine calls.
C16_Witness ==
    /\ called.op = "disconnect"
    /\ called.b # called.other
    /\ Len(channel[called.b]) = 2
    /\ Len(channel[called.b][1].ports) = 2
    /\ Len(channel[called.b][2].ports) = 1
    /\ Len(called.calls) = 5

\* C17: after any sequence of copy construction, add_channel,
\* add_port_to_channel, set_port, remove_port_from_channel, remove_channel,
\* remove_channels and add_channels_from_bundle, every port name stored in
\* every channel of every bundle contains ':'.
C17_StoredPortsAreQualified ==
    \A b \in Bundles :
        \A i \in 1..Len(channel[b]) :
            \A j \in 1..Len(channel[b][i].ports) :
                \E n \in 1..Len(channel[b][i].ports[j]) : channel[b][i].ports[j][n] = ":"

\* C17 witness: a bundle copy-constructed from another, and holding ports,
\* has then taken the other's channels, and holds three ports.
C17_Witness ==
    /\ called.op = "add_channels_from_bundle"
    /\ _name[called.b] = _name[called.other]
    /\ SumPorts(called.pre[called.b]) >= 1
    /\ SumPorts(channel[called.b]) = 3

\* C18: with a single caller and other distinct from this,
\* add_channels_from_bundle (other) leaves the channels this had unchanged and
\* in place and appends other->nchannels () channels in other's order, the
\* i-th named other's name + " " + other's i-th channel name and holding the
\* ports of other's i-th channel in their order; other is unchanged.
C18_AddChannelsFromBundleAppendsCopies ==
    called.op = "add_channels_from_bundle" =>
        LET before == called.pre[called.b]
            theirs == called.pre[called.other]
            now == channel[called.b]
        IN  /\ called.b # called.other
            /\ pc[Caller].at = "idle"
            /\ channel[called.other] = theirs
            /\ Len(now) = Len(before) + Len(theirs)
            /\ \A i \in 1..Len(before) : now[i] = before[i]
            /\ \A i \in 1..Len(theirs) :
                  /\ now[Len(before) + i].name
                         = _name[called.other] \o <<" ">> \o theirs[i].name
                  /\ now[Len(before) + i].ports = theirs[i].ports

\* C18 witness: a bundle with a channel that holds a port has taken a channel
\* with ports from another bundle.
C18_Witness ==
    /\ called.op = "add_channels_from_bundle"
    /\ Len(called.pre[called.b]) = 1
    /\ SumPorts(called.pre[called.b]) >= 1
    /\ Len(channel[called.b]) = 2
    /\ Len(channel[called.b][2].ports) >= 1

(***************************************************************************)
(*                  Bundle, with a synchronous observer                    *)
(*                                                                         *)
(* A slot connected to PortsChanged runs in the emitting thread and calls  *)
(* back into the bundle: port_attached_to_channel (ch, portname), with the *)
(* channel of the signal and the port the emitting function was given.     *)
(***************************************************************************)
CallingBack == {"add_port_to_channel", "set_port"}

\* port_attached_to_channel: assert (ch < nchannels ()), line 147.
CallbackAssert(t) ==
    LET f == pc[t] IN
    /\ Running
    /\ f.at = "emit"
    /\ f.op \in CallingBack
    /\ mutex[f.b] = NoThread
    /\ pc' = [pc EXCEPT ![t] = IF f.ch < nchannels(f.b) THEN [f EXCEPT !.at = "cb_lock"]
                                ELSE Aborted]
    /\ UNCHANGED <<channel, mutex, beatsVars, callVars>>

\* port_attached_to_channel: Glib::Mutex::Lock lm (_channel_mutex), line 149.
CallbackLock(t) ==
    LET f == pc[t] IN
    /\ Running
    /\ f.at = "cb_lock"
    /\ mutex[f.b] = NoThread
    /\ mutex' = acquire(f.b, t)
    /\ pc' = [pc EXCEPT ![t].at = "cb_locked"]
    /\ UNCHANGED <<channel, beatsVars, callVars>>

\* port_attached_to_channel: std::find over _channel[ch].ports under the lock
\* and return, line 150; the slot and then the emitting function return.
\* With ch outside the vector the read is undefined: a crash, or any answer.
CallbackReturn(t) ==
    LET f == pc[t] IN
    /\ Running
    /\ f.at = "cb_locked"
    /\ UNCHANGED <<channel, beatsVars, callVars>>
    /\ \/ /\ mutex' = scoped_unlock(f.b, t)
          /\ pc' = [pc EXCEPT ![t] = Idle]
       \/ /\ f.ch >= Len(channel[f.b])
          /\ UNCHANGED mutex
          /\ pc' = [pc EXCEPT ![t] = Crashed]

NextObserver ==
    \/ NextBundle
    \/ \E t \in Threads : CallbackAssert(t)
    \/ \E t \in Threads : CallbackLock(t)
    \/ \E t \in Threads : CallbackReturn(t)

SpecObserver == Init /\ [][NextObserver]_vars

(***************************************************************************)
(*               Properties of Bundle with an observer                     *)
(***************************************************************************)

\* Thread t is delivering PortsChanged (ch) of add_port_to_channel or set_port
\* to the slot, which is about to call, or is inside, port_attached_to_channel.
InCallback(t) ==
    /\ pc[t].op \in CallingBack
    /\ pc[t].at \in {"emit", "cb_lock", "cb_locked"}

\* What the slot finds in the state: ch is a channel and portname is in it.
Attached(t) ==
    /\ pc[t].ch < Len(channel[pc[t].b])
    /\ \E i \in 1..Len(channel[pc[t].b][pc[t].ch + 1].ports) :
           channel[pc[t].b][pc[t].ch + 1].ports[i] = pc[t].arg

\* Nothing waits for itself: while the process runs, a held mutex is held by
\* a thread inside the critical section of that bundle, which it leaves
\* without waiting.
HolderInSection ==
    \A b \in Bundles :
        (Running /\ mutex[b] # NoThread) =>
            /\ pc[mutex[b]].b = b
            /\ pc[mutex[b]].at \in {"locked", "cb_locked"}

\* C15, as claimed: while PortsChanged (ch) of add_port_to_channel (ch, p) or
\* set_port (ch, p) is delivered to a slot that calls back into the bundle,
\* the slot does not deadlock and finds ch a valid channel with p attached,
\* whatever other threads do to the bundle.
C15_CallbackSeesPortAttached ==
    /\ HolderInSection
    /\ \A t \in Threads : InCallback(t) => Attached(t)

\* C15, amended: the slot does not deadlock in any interleaving, and it finds
\* ch valid with p attached provided no other thread edits the bundle's
\* channels between the bounds check of the emitting call and the end of the
\* callback: an edit made with ch inside the vector leaves p attached when
\* the lock is released, and from then on only the locked edit of another
\* thread ends that.
C15_CallbackSeesPortUnlessEdited ==
    /\ []HolderInSection
    /\ [][\A t \in Threads :
             /\ (/\ pc[t].op \in CallingBack
                 /\ pc[t].at = "locked"
                 /\ pc[t].ch < Len(channel[pc[t].b])
                 /\ pc'[t].at # "locked") =>
                    (pc'[t].at = "emit" /\ pc'[t].op = pc[t].op /\ Attached(t)')
             /\ (InCallback(t) /\ InCallback(t)' /\ Attached(t) /\ ~Attached(t)') =>
                    \E u \in Threads \ {t} :
                        /\ pc[u].at = "locked"
                        /\ pc[u].b = pc[t].b
                        /\ pc'[u].at # "locked"]_vars

\* C15 witness: the slot of set_port's PortsChanged is inside
\* port_attached_to_channel, holding the lock, with the port attached, while
\* the other thread waits for the lock to edit the same bundle.
C15_Witness ==
    \E t \in Threads, u \in Threads :
        /\ t # u
        /\ pc[t].op = "set_port"
        /\ pc[t].at = "cb_locked"
        /\ Attached(t)
        /\ mutex[pc[t].b] = t
        /\ pc[u].at = "lock"
        /\ pc[u].b = pc[t].b

(***************************************************************************)
(*       Bundle: connect, disconnect and add_channels_from_bundle,         *)
(*                     one accessor call at a time                         *)
(*                                                                         *)
(* These functions take no lock of their own: they call the accessors of   *)
(* this bundle and of `other`, each of which locks and unlocks the mutex   *)
(* of the bundle it is called on, and other threads run in between.  The   *)
(* frame of the thread holds the loop index i in `ch`; local[t] holds      *)
(* `other`, N (or ch), the positions j and k, and, for the properties, the *)
(* port lists as they stood when channel_ports returned and the pairs      *)
(* passed to the engine for channel i.                                     *)
(***************************************************************************)

\* Bounds of the exploration: channels and ports a bundle may grow to by
\* add_channels_from_bundle.
MergeMaxChannels == 2
MergeMaxPorts == 2

\* Places of a thread where it is about to construct a Glib::Mutex::Lock, and
\* the place it is at once it holds the lock.
Held ==
    [ours |-> "ours_locked", theirs |-> "theirs_locked", name |-> "name_locked",
     add |-> "add_locked", ports |-> "ports_locked", port |-> "port_locked"]

\* Places inside calls made on this bundle; the others are inside calls made
\* on `other`.
OnThis ==
    {"ours_assert", "ours", "ours_locked", "add", "add_locked",
     "port_assert", "port", "port_locked"}

\* The bundle whose accessor thread t is calling.
Target(t) == IF pc[t].at \in OnThis THEN pc[t].b ELSE local[t].other

\* The function returns: its locals are gone.
ReturnFrom(t) ==
    /\ pc' = [pc EXCEPT ![t] = Idle]
    /\ local' = [local EXCEPT ![t] = NoLocals]

\* A failed assert, and a crash.
Stop(t, frame) ==
    /\ pc' = [pc EXCEPT ![t] = frame]
    /\ local' = [local EXCEPT ![t] = NoLocals]

\* The mutex of a scoped lock kept past the return of the accessor.
return_unlock_kept(b, t) == mutex

\* An accessor returns: the scope of its Glib::Mutex::Lock ends with it
\* (lines 55, 209), as does the scope of a mutator's lock (lines 71, 139).
return_unlock(b, t) == [mutex EXCEPT ![b] = NoThread]

\* Glib::Mutex::Lock lm (_channel_mutex) of channel_ports, channel_name,
\* add_channel and add_port_to_channel, called from a function of this
\* section.  The exploration stops growing a bundle at its bounds.
Take(t) ==
    LET f == pc[t] IN
    /\ Running
    /\ f.op \in {"connect", "disconnect", "add_channels_from_bundle"}
    /\ f.at \in DOMAIN Held
    /\ f.at = "add" => Len(channel[f.b]) < MergeMaxChannels
    /\ f.at = "port" => SumPorts(channel[f.b]) < MergeMaxPorts
    /\ mutex[Target(t)] = NoThread
    /\ mutex' = acquire(Target(t), t)
    /\ pc' = [pc EXCEPT ![t].at = Held[f.at]]
    /\ UNCHANGED <<channel, beatsVars, _name, called, local>>

\* assert (c < nchannels()) of channel_ports and channel_name, on the bundle
\* the accessor is called on.
AssertIndex(t) ==
    LET f == pc[t]
        next == [ours_assert |-> "ours", theirs_assert |-> "theirs",
                 name_assert |-> "name", ports_assert |-> "ports"]
    IN
    /\ Running
    /\ f.at \in DOMAIN next
    /\ mutex[Target(t)] = NoThread
    /\ IF f.ch < nchannels(Target(t))
       THEN pc' = [pc EXCEPT ![t].at = next[f.at]] /\ UNCHANGED local
       ELSE Stop(t, Aborted)
    /\ UNCHANGED <<channel, mutex, beatsVars, _name, called>>

\* return _channel[c].ports: a reference to the port list inside the vector,
\* not a copy.  The model keeps the list as it stood at that instant, in
\* `ours` or `theirs`; what the reference yields later is Views.  With c
\* outside the vector the reference is to no element: a crash, or a reference
\* to storage that reads as an empty list.
TakeReference(t) ==
    LET f == pc[t]
        l == local[t]
        x == Target(t)
        seen == IF f.ch < Len(channel[x]) THEN channel[x][f.ch + 1].ports ELSE <<>>
    IN
    /\ Running
    /\ f.at \in {"ours_locked", "theirs_locked", "ports_locked"}
    /\ UNCHANGED <<channel, beatsVars, _name, called>>
    /\ \/ /\ mutex' = return_unlock(x, t)
          /\ pc' = [pc EXCEPT ![t].at =
                       IF f.at = "ours_locked" THEN "theirs_assert"
                       ELSE IF f.at = "theirs_locked" THEN "iterate" ELSE "inner"]
          /\ local' = [local EXCEPT ![t] =
                       IF f.at = "ours_locked"
                       THEN [l EXCEPT !.ours = seen, !.theirs = <<>>, !.calls = {},
                                      !.done = FALSE, !.j = 0, !.k = 0]
                       ELSE IF f.at = "theirs_locked"
                       THEN [l EXCEPT !.theirs = seen, !.j = 1, !.k = 1]
                       ELSE [l EXCEPT !.theirs = seen, !.j = 0]]
       \/ /\ f.ch >= Len(channel[x])
          /\ UNCHANGED mutex
          /\ Stop(t, Crashed)

\* What a reference to _channel[i].ports of bundle x yields when it is used
\* after the lock was released: the list now at that place, or, when the
\* vector or the list was edited since (the storage moved or freed, a
\* concurrent write), also the list as it stood.
Views(x, i, seen) ==
    {seen} \cup (IF i < Len(channel[x]) THEN {channel[x][i + 1].ports} ELSE {})

\* The use of such a reference is undefined once the list is no longer there
\* as it stood.
Dangling(x, i, seen) == Views(x, i, seen) # {seen}

\* uint32_t const N = nchannels (); on entry to connect (f = "connect") or
\* disconnect.
CallConnect(t, f, b, other) ==
    /\ Running
    /\ pc[t].at = "idle"
    /\ mutex[b] = NoThread
    /\ pc' = [pc EXCEPT ![t] = Frame(f, "N", b, 0, <<>>)]
    /\ local' = [local EXCEPT ![t] = [NoLocals EXCEPT !.other = other, !.n = nchannels(b)]]
    /\ UNCHANGED <<channel, mutex, beatsVars, _name, called>>

\* assert (N == other->nchannels ()); and the first test of i < N.
AssertN(t) ==
    LET f == pc[t]
        l == local[t]
    IN
    /\ Running
    /\ f.at = "N"
    /\ mutex[l.other] = NoThread
    /\ IF l.n # nchannels(l.other) THEN Stop(t, Aborted)
       ELSE IF 0 < l.n THEN pc' = [pc EXCEPT ![t].at = "ours_assert"] /\ UNCHANGED local
       ELSE ReturnFrom(t)
    /\ UNCHANGED <<channel, mutex, beatsVars, _name, called>>

\* One step of the two iterator loops over our_ports and other_ports, which
\* are references: engine.connect (*j, *k) or engine.disconnect (*j, *k) and
\* ++k; or k at other_ports.end (), and ++j; or j at our_ports.end (), and ++i
\* with the test of i < N.  Each step reads the lists through the references.
Iterate(t) ==
    LET f == pc[t]
        l == local[t]
    IN
    /\ Running
    /\ f.at = "iterate"
    /\ UNCHANGED <<channel, mutex, beatsVars, _name, called>>
    /\ \/ \E our_ports \in Views(f.b, f.ch, l.ours),
             other_ports \in Views(l.other, f.ch, l.theirs) :
             IF l.j <= Len(our_ports) /\ l.k <= Len(other_ports)
             THEN /\ local' = [local EXCEPT ![t] =
                                 [l EXCEPT !.calls = @ \cup {<<our_ports[l.j], other_ports[l.k]>>},
                                           !.k = @ + 1]]
                  /\ UNCHANGED pc
             ELSE IF l.j <= Len(our_ports)
             THEN /\ local' = [local EXCEPT ![t] = [l EXCEPT !.j = @ + 1, !.k = 1]]
                  /\ UNCHANGED pc
             ELSE /\ local' = [local EXCEPT ![t] = [l EXCEPT !.done = TRUE]]
                  /\ pc' = [pc EXCEPT ![t] =
                               IF f.ch + 1 < l.n
                               THEN [f EXCEPT !.ch = @ + 1, !.at = "ours_assert"]
                               ELSE [f EXCEPT !.at = "return"]]
       \/ /\ Dangling(f.b, f.ch, l.ours) \/ Dangling(l.other, f.ch, l.theirs)
          /\ Stop(t, Crashed)

\* connect and disconnect return.
ReturnConnect(t) ==
    /\ Running
    /\ pc[t].at = "return"
    /\ ReturnFrom(t)
    /\ UNCHANGED <<channel, mutex, beatsVars, _name, called>>

\* One thread connects and disconnects bundle A; the other edits the port
\* lists of both bundles.
Connector == "t1"
Editor == "t2"
PortOps == {"remove_port_from_channel", "set_port"}

\* Bundles as they are when the threads start: no channel, or one channel
\* with one or two ports.
ConnectedBundles ==
    {<<>>,
     <<[name |-> <<"L">>, ports |-> <<<<"a", ":", "1">>>>]>>,
     <<[name |-> <<"L">>, ports |-> <<<<"a", ":", "1">>, <<"b", ":", "2">>>>]>>}

InitConnect ==
    /\ InitBeats
    /\ channel \in [Bundles -> ConnectedBundles]
    /\ mutex = [b \in Bundles |-> NoThread]
    /\ pc = [t \in Threads |-> Idle]
    /\ _name = [b \in Bundles |-> <<b>>]
    /\ called = NoCall
    /\ local = [t \in Threads |-> NoLocals]

NextConnect ==
    \/ \E f \in {"connect", "disconnect"} : CallConnect(Connector, f, "A", "B")
    \/ AssertN(Connector)
    \/ AssertIndex(Connector)
    \/ Take(Connector)
    \/ TakeReference(Connector)
    \/ Iterate(Connector)
    \/ ReturnConnect(Connector)
    \/ \E op \in PortOps, b \in Bundles, ch \in 0..MaxChannels :
          \E arg \in QualifiedPorts : CallIndexed(Editor, op, b, ch, arg)
    \/ Lock(Editor)
    \/ RemovePortFromChannel(Editor)
    \/ SetPort(Editor)
    \/ Emit(Editor)

SpecConnect == InitConnect /\ [][NextConnect]_vars

\* uint32_t const ch = nchannels (); on entry to add_channels_from_bundle.
\* `bound` is kept for the properties: the channels `other` has at the call,
\* plus those other threads add to it while the loop runs.
CallAddChannelsFromBundle(t, b, other) ==
    /\ Running
    /\ pc[t].at = "idle"
    /\ mutex[b] = NoThread
    /\ pc' = [pc EXCEPT ![t] = Frame("add_channels_from_bundle", "test", b, 0, <<>>)]
    /\ local' = [local EXCEPT ![t] =
                    [NoLocals EXCEPT !.other = other, !.n = nchannels(b),
                                     !.bound = Len(channel[other])]]
    /\ UNCHANGED <<channel, mutex, beatsVars, _name, called>>

\* i < other->nchannels(), evaluated before every iteration.
TestLoop(t) ==
    LET f == pc[t] IN
    /\ Running
    /\ f.at = "test"
    /\ mutex[local[t].other] = NoThread
    /\ IF f.ch < nchannels(local[t].other)
       THEN pc' = [pc EXCEPT ![t].at = "name_assert"] /\ UNCHANGED local
       ELSE ReturnFrom(t)
    /\ UNCHANGED <<channel, mutex, beatsVars, _name, called>>

\* s << other->name() << " " << other->channel_name(i): channel_name returns
\* _channel[ch].name by value.  With ch outside the vector the read is
\* undefined: a crash, or a name read from no element.
ReadName(t) ==
    LET f == pc[t]
        o == local[t].other
    IN
    /\ Running
    /\ f.at = "name_locked"
    /\ UNCHANGED <<channel, beatsVars, _name, called, local>>
    /\ \/ /\ mutex' = return_unlock(o, t)
          /\ pc' = [pc EXCEPT ![t] =
                       [f EXCEPT !.at = "add",
                                 !.arg = _name[o] \o <<" ">> \o
                                         (IF f.ch < Len(channel[o])
                                          THEN channel[o][f.ch + 1].name ELSE <<>>)]]
       \/ /\ f.ch >= Len(channel[o])
          /\ UNCHANGED mutex
          /\ pc' = [pc EXCEPT ![t] = Crashed]

\* add_channel (s.str()), called on this bundle; ConfigurationChanged has no
\* slot connected here.  A channel added to a bundle that another thread is
\* merging from counts into that thread's `bound`.
AddChannelFromOther(t) ==
    LET f == pc[t] IN
    /\ Running
    /\ f.at = "add_locked"
    /\ channel' = [channel EXCEPT ![f.b] = add_channel(@, f.arg)]
    /\ mutex' = return_unlock(f.b, t)
    /\ pc' = [pc EXCEPT ![t] = [f EXCEPT !.at = "ports_assert", !.arg = <<>>]]
    /\ local' = [u \in Threads |->
                    IF /\ u # t
                       /\ pc[u].op = "add_channels_from_bundle"
                       /\ local[u].other = f.b
                    THEN [local[u] EXCEPT !.bound = @ + 1] ELSE local[u]]
    /\ UNCHANGED <<beatsVars, _name, called>>

\* j < pl.size(), read through the reference pl, then pl[j] as the argument
\* of add_port_to_channel; or the end of the inner loop, and ++i.
InnerLoop(t) ==
    LET f == pc[t]
        l == local[t]
    IN
    /\ Running
    /\ f.at = "inner"
    /\ UNCHANGED <<channel, mutex, beatsVars, _name, called>>
    /\ \/ \E pl \in Views(l.other, f.ch, l.theirs) :
             IF l.j < Len(pl)
             THEN /\ pc' = [pc EXCEPT ![t] = [f EXCEPT !.at = "port_assert", !.arg = pl[l.j + 1]]]
                  /\ UNCHANGED local
             ELSE /\ pc' = [pc EXCEPT ![t] = [f EXCEPT !.at = "test", !.ch = @ + 1, !.arg = <<>>]]
                  /\ UNCHANGED local
       \/ /\ Dangling(l.other, f.ch, l.theirs)
          /\ Stop(t, Crashed)

\* The asserts of add_port_to_channel (ch + i, pl[j]).
PortAssert(t) ==
    LET f == pc[t] IN
    /\ Running
    /\ f.at = "port_assert"
    /\ mutex[f.b] = NoThread
    /\ IF local[t].n + f.ch < nchannels(f.b) /\ has_separator(f.arg)
       THEN pc' = [pc EXCEPT ![t].at = "port"] /\ UNCHANGED local
       ELSE Stop(t, Aborted)
    /\ UNCHANGED <<channel, mutex, beatsVars, _name, called>>

\* _channel[ch + i].ports.push_back (pl[j]) and ++j; PortsChanged has no slot
\* connected here.  With ch + i outside the vector the write is undefined: a
\* crash, or a write that leaves the vector as it is.
PushPort(t) ==
    LET f == pc[t]
        c == local[t].n + f.ch
    IN
    /\ Running
    /\ f.at = "port_locked"
    /\ UNCHANGED <<beatsVars, _name, called>>
    /\ \/ /\ channel' = [channel EXCEPT ![f.b] =
                            IF c < Len(@) THEN add_port_to_channel(@, c, f.arg) ELSE @]
          /\ mutex' = return_unlock(f.b, t)
          /\ pc' = [pc EXCEPT ![t] = [f EXCEPT !.at = "inner", !.arg = <<>>]]
          /\ local' = [local EXCEPT ![t].j = @ + 1]
       \/ /\ c >= Len(channel[f.b])
          /\ UNCHANGED <<channel, mutex>>
          /\ Stop(t, Crashed)

\* Bundles as they are when two threads start to connect and merge them.
MergedBundles == {<<>>, <<[name |-> <<"L">>, ports |-> <<<<"a", ":", "1">>>>]>>}

InitMerge ==
    /\ InitBeats
    /\ channel \in [Bundles -> MergedBundles]
    /\ mutex = [b \in Bundles |-> NoThread]
    /\ pc = [t \in Threads |-> Idle]
    /\ _name = [b \in Bundles |-> <<b>>]
    /\ called = NoCall
    /\ local = [t \in Threads |-> NoLocals]

\* Each thread calls the functions of its own bundle: it connects it to the
\* other bundle, and merges the other bundle, or its own, into it.
This == [t1 |-> "A", t2 |-> "B"]

NextMerge ==
    \/ \E t \in Threads : \E other \in Bundles \ {This[t]} :
          CallConnect(t, "connect", This[t], other)
    \/ \E t \in Threads, other \in Bundles : CallAddChannelsFromBundle(t, This[t], other)
    \/ \E t \in Threads : AssertN(t)
    \/ \E t \in Threads : AssertIndex(t)
    \/ \E t \in Threads : Take(t)
    \/ \E t \in Threads : TakeReference(t)
    \/ \E t \in Threads : Iterate(t)
    \/ \E t \in Threads : ReturnConnect(t)
    \/ \E t \in Threads : TestLoop(t)
    \/ \E t \in Threads : ReadName(t)
    \/ \E t \in Threads : AddChannelFromOther(t)
    \/ \E t \in Threads : InnerLoop(t)
    \/ \E t \in Threads : PortAssert(t)
    \/ \E t \in Threads : PushPort(t)

SpecMerge == InitMerge /\ [][NextMerge]_vars

(***************************************************************************)
(*              Properties of connect and disconnect                       *)
(***************************************************************************)

\* The pairs of the two port lists of channel i as they stood when
\* channel_ports returned them.
CrossProduct(ours, theirs) ==
    {<<ours[j], theirs[k]>> : j \in 1..Len(ours), k \in 1..Len(theirs)}

\* C14: while connect or disconnect runs and another thread edits the port
\* lists of either bundle, the pairs passed to the engine for channel i are
\* made from the lists as they stood when each was read under the lock: only
\* such pairs while the loops run, and all of them once the loops are over.
C14_EngineCallsFromListsAsRead ==
    \A t \in Threads :
        pc[t].op \in {"connect", "disconnect"} =>
            /\ pc[t].at = "iterate" =>
                   local[t].calls \subseteq CrossProduct(local[t].ours, local[t].theirs)
            /\ local[t].done =>
                   local[t].calls = CrossProduct(local[t].ours, local[t].theirs)

(***************************************************************************)
(*     Properties of add_channels_from_bundle and of the locks taken       *)
(***************************************************************************)

\* Places inside the body of the loop over other's channels.
InLoopBody ==
    {"name_assert", "name", "name_locked", "add", "add_locked", "ports_assert",
     "ports", "ports_locked", "inner", "port_assert", "port", "port_locked"}

\* C19: add_channels_from_bundle (other) terminates for every argument, other
\* being this bundle included: the loop over other's channels runs a bounded
\* number of times, at most once for every channel other has at the call and
\* once for every channel another thread adds to it meanwhile.
C19_MergeLoopIsBounded ==
    \A t \in Threads :
        (pc[t].op = "add_channels_from_bundle" /\ pc[t].at \in InLoopBody) =>
            pc[t].ch < local[t].bound

\* The mutexes thread t holds, and the places where a thread is inside the
\* scope of a Glib::Mutex::Lock.
HeldBy(t) == {b \in Bundles : mutex[b] = t}
InScope == {Held[at] : at \in DOMAIN Held}

\* C20: no operation acquires a channel mutex while it holds one.  While the
\* process runs a thread holds at most one mutex, only inside the scope of
\* the lock of the accessor it is in, which it leaves without waiting; so a
\* thread that waits for a mutex holds none and the holder it waits for is
\* not waiting: connect and add_channels_from_bundle in opposite directions
\* cannot deadlock.
C20_AtMostOneLockHeld ==
    Running =>
        \A t \in Threads :
            /\ Cardinality(HeldBy(t)) <= 1
            /\ HeldBy(t) # {} => (pc[t].at \in InScope /\ HeldBy(t) = {Target(t)})
            /\ pc[t].at \in DOMAIN Held => HeldBy(t) = {}

\* C20 witness: a.connect (b) and b.connect (a) run together; one thread is
\* inside other->channel_ports with the mutex of the other bundle, which the
\* second thread waits for to read its own ports.
C20_Witness ==
    \E t \in Threads, u \in Threads :
        /\ pc[t].op = "connect" /\ pc[u].op = "connect"
        /\ pc[t].b = local[u].other /\ pc[u].b = local[t].other /\ pc[t].b # pc[u].b
        /\ pc[t].at = "theirs_locked"
        /\ mutex[pc[u].b] = t
        /\ pc[u].at = "ours"

=============================================================================
